---- MODULE Spec2Model ----
(***************************************************************************)
(* Translation request pipeline of tw-thai-translator: the client-side     *)
(* quota tracker (quota.js), the Gemini backend client (gemini.js) and the *)
(* round orchestration of app.js (beginRecording, translateText).          *)
(*                                                                         *)
(* JavaScript runs each handler to completion between awaits, so every     *)
(* action below is one synchronous stretch of code: from an event (click,  *)
(* timer, fetch response, promise resolution) to the next await.  The      *)
(* awaits that only read a response body (response.text(), response.json(),*)
(* response.clone().text()) touch no shared state and are folded into the  *)
(* step that follows them.                                                 *)
(***************************************************************************)
EXTENDS Integers, Sequences, FiniteSets, Bags, TLC

(* ------------------------------ bounds --------------------------------- *)
\* number of rounds (voice or typed) that are started in one behaviour
MaxRounds == 2
\* recordRequest() calls beyond MAX_RPM recorded ones in a behaviour of QuotaSpec
MaxRecords == 2
\* final results delivered to one recognition session
MaxSegments == 2
\* recordRequest() calls made by the tabs of TabsSpec
MaxTabRecords == 3
\* saveEntry() calls in a behaviour of HistorySpec
MaxSaves == 3

(* ------------------------- program constants --------------------------- *)
MAX_RPM == 15
MAX_RPD == 1500
MAX_ENTRIES == 200
MINUTE_MS == 60000
SECOND_MS == 1000
DAY_MS == 86400000
MAX_RETRIES == 3
BACKOFF_BASE_MS == 2000
BUILT_IN_KEY == ""

Null == [kind |-> "null"]

(* ------------------------------- clock --------------------------------- *)
\* Local wall-clock instants (ms since a local midnight) at which handlers
\* run.  The first is the instant the page is opened; the others are the
\* instants at which the minute window and the day counter change:
\* the last millisecond of the minute that started at T0, and the end of
\* that minute (which is also the next local midnight).
T0 == DAY_MS - MINUTE_MS
Instants == << T0, T0 + MINUTE_MS - 1, T0 + MINUTE_MS >>

(* ---------------------------- quota.js --------------------------------- *)
\* localStorage value under STORAGE_KEY: absent, a string that is not JSON,
\* or the JSON of a usage object.
AbsentBlob == [kind |-> "absent"]
InvalidBlob == [kind |-> "invalid"]

SaveUsageData(data) ==
    [kind |-> "json", minuteTimestamps |-> data.minuteTimestamps,
     dayStart |-> data.dayStart, dayCount |-> data.dayCount]

GetUsageData(raw) ==
    IF raw.kind = "json"
    THEN [minuteTimestamps |-> raw.minuteTimestamps,
          dayStart |-> raw.dayStart, dayCount |-> raw.dayCount]
    ELSE Null

StartOfDay(t) == t - (t % DAY_MS)

\* (variant: an entry exactly 60 s old is kept, `>=` for `>`)
InWindowInclusive(ts, t) == ts >= t - MINUTE_MS

InWindow(ts, t) == ts > t - MINUTE_MS

\* (variant: the day counter is carried over, dayStart is never compared)
CleanDataNoRollover(data, t) ==
    [minuteTimestamps |-> SelectSeq(data.minuteTimestamps, LAMBDA x : InWindow(x, t)),
     dayStart |-> data.dayStart, dayCount |-> data.dayCount]

CleanData(data, t) ==
    LET todayStart == StartOfDay(t)
        kept == SelectSeq(data.minuteTimestamps, LAMBDA x : InWindow(x, t))
    IN  IF data.dayStart # todayStart
        THEN [minuteTimestamps |-> kept, dayStart |-> todayStart, dayCount |-> 0]
        ELSE [minuteTimestamps |-> kept, dayStart |-> data.dayStart,
              dayCount |-> data.dayCount]

GetCleanUsage(raw, t) ==
    LET data == GetUsageData(raw)
    IN  IF data = Null
        THEN CleanData([minuteTimestamps |-> << >>, dayStart |-> StartOfDay(t),
                        dayCount |-> 0], t)
        ELSE CleanData(data, t)

\* (variant: the timestamp is pushed but the day counter is not incremented)
RecordIntoKeepsCount(data, t) ==
    SaveUsageData([minuteTimestamps |-> Append(data.minuteTimestamps, t),
                   dayStart |-> data.dayStart,
                   dayCount |-> data.dayCount])

\* recordRequest() after its read: push, increment, save
RecordInto(data, t) ==
    SaveUsageData([minuteTimestamps |-> Append(data.minuteTimestamps, t),
                   dayStart |-> data.dayStart,
                   dayCount |-> data.dayCount + 1])

RecordRequest(raw, t) == RecordInto(GetCleanUsage(raw, t), t)

\* (variant: no clamp, the second argument is returned)
MaxUnclamped(a, b) == b

Max(a, b) == IF a >= b THEN a ELSE b

\* (variant: Math.floor for Math.ceil)
FloorDiv(a, b) == IF a >= 0 THEN a \div b ELSE 0 - ((0 - a + b - 1) \div b)

\* Math.ceil(a / b) for b > 0
CeilDiv(a, b) == IF a >= 0 THEN (a + b - 1) \div b ELSE 0 - ((0 - a) \div b)

\* Math.min(...seq) of a non-empty sequence
MinOf(seq) == CHOOSE m \in { seq[i] : i \in DOMAIN seq } :
                  \A i \in DOMAIN seq : m <= seq[i]

GetQuota(raw, t) ==
    LET data == GetCleanUsage(raw, t)
        rpmUsed == Len(data.minuteTimestamps)
        rpmRemaining == Max(0, MAX_RPM - rpmUsed)
        resetInSec ==
            IF rpmUsed > 0 /\ rpmRemaining = 0
            THEN Max(0, CeilDiv(MinOf(data.minuteTimestamps) + MINUTE_MS - t, SECOND_MS))
            ELSE 0
        rpdUsed == data.dayCount
        rpdRemaining == Max(0, MAX_RPD - rpdUsed)
    IN  [rpm |-> [used |-> rpmUsed, max |-> MAX_RPM, remaining |-> rpmRemaining,
                  resetInSec |-> resetInSec],
         rpd |-> [used |-> rpdUsed, max |-> MAX_RPD, remaining |-> rpdRemaining]]

\* (variant: the per-minute test made before the per-day test)
CanRequestMinuteFirst(raw, t) ==
    LET q == GetQuota(raw, t)
    IN  IF q.rpm.remaining <= 0
        THEN [allowed |-> FALSE, reason |-> "minute", resetInSec |-> q.rpm.resetInSec]
        ELSE IF q.rpd.remaining <= 0
        THEN [allowed |-> FALSE, reason |-> "daily", resetInSec |-> 0]
        ELSE [allowed |-> TRUE, reason |-> "none", resetInSec |-> 0]

CanRequest(raw, t) ==
    LET q == GetQuota(raw, t)
    IN  IF q.rpd.remaining <= 0
        THEN [allowed |-> FALSE, reason |-> "daily", resetInSec |-> 0]
        ELSE IF q.rpm.remaining <= 0
        THEN [allowed |-> FALSE, reason |-> "minute", resetInSec |-> q.rpm.resetInSec]
        ELSE [allowed |-> TRUE, reason |-> "none", resetInSec |-> 0]

(* ---------------------------- history.js ------------------------------- *)
\* localStorage value under HISTORY_KEY: absent, a string that is not JSON,
\* or the JSON of the array of entries (newest first)
SaveAll(entries) == [kind |-> "json", entries |-> entries]

\* (variant: the exception of JSON.parse is not caught; the caller gets the
\* raw marker instead of a list)
LoadAllNoCatch(raw) ==
    IF raw.kind = "json" THEN raw.entries
    ELSE IF raw.kind = "absent" THEN << >>
    ELSE << "SyntaxError" >>

\* loadAll(): `raw ? JSON.parse(raw) : []`, and [] when that throws
LoadAll(raw) == IF raw.kind = "json" THEN raw.entries ELSE << >>

GetHistory(raw) == LoadAll(raw)

\* (variant: the list is not cut at MAX_ENTRIES)
SaveEntryNoLimit(raw, entry) == SaveAll(<< entry >> \o LoadAll(raw))

\* saveEntry(entry): unshift, cut the array at MAX_ENTRIES, save
SaveEntry(raw, entry) ==
    LET entries == << entry >> \o LoadAll(raw)
    IN  SaveAll(IF Len(entries) > MAX_ENTRIES
                THEN SubSeq(entries, 1, MAX_ENTRIES) ELSE entries)

\* clearHistory(): localStorage.removeItem
ClearHistory(raw) == AbsentBlob

\* The history an earlier session left behind after n saveEntry() calls.  An
\* entry is represented by the serial number of its saveEntry() call: those
\* made before the page was opened are 0, -1, ..., those made since are
\* 1, 2, ...
HistoryPrefill(n) == SaveAll([i \in 1 .. n |-> 1 - i])

(* ---------------------------- gemini.js -------------------------------- *)
GetApiKey(override) == IF override # "" THEN override ELSE BUILT_IN_KEY

\* Error messages (err.message), kept as the fixed text, the interpolated
\* status and the interpolated upstream detail.
Message(msg, status, detail) == [msg |-> msg, status |-> status, detail |-> detail]
NoMessage == Message("", 0, "")
MSG_NO_KEY == "set-api-key"              \* '請先設定 Gemini API Key'
MSG_RATE_LIMIT == "rate-limited"         \* 'API 限流: <detail>'
MSG_API_ERROR == "gemini-api-error"      \* 'Gemini API 錯誤 (<status>): <detail>'
MSG_NO_CONTENT == "no-valid-content"     \* 'Gemini 沒有回傳有效內容'
MSG_BAD_FORMAT == "bad-format"           \* 'Gemini 回傳格式錯誤'
MSG_TRANSLATE_FAILED == "translate-failed" \* '翻譯失敗: <detail>'
MSG_FETCH_FAILED == "failed-to-fetch"    \* the TypeError a rejected fetch carries
MSG_BODY_NOT_JSON == "body-not-json"     \* the SyntaxError response.json() rejects with

\* Bodies of non-2xx responses: an error envelope with a message, or text
\* that is not JSON.
ErrBodies == { [parsable |-> TRUE, message |-> "quota exceeded", raw |-> "{error}"],
               [parsable |-> FALSE, message |-> "", raw |-> "Bad Gateway"] }

\* detail = errJson.error?.message || errBody, or errBody when JSON.parse throws
ErrDetail(body) ==
    IF body.parsable /\ body.message # "" THEN body.message ELSE body.raw

\* JSON values the embedded text of a 2xx response can parse to.  `translated`
\* and `options` are the fields the app reads; has* tells whether the parsed
\* object carries the field at all.
Value(type, hasTranslated, translated, hasOptions, options) ==
    [type |-> type, original |-> "", hasTranslated |-> hasTranslated,
     translated |-> translated, hasOptions |-> hasOptions, options |-> options]
TranslateValue == [Value("translate", TRUE, "tr", FALSE, << >>) EXCEPT !.original = "src"]
ClarifyValue == Value("clarify", FALSE, "", TRUE, << "A", "B" >>)
TranslateNoText == Value("translate", FALSE, "", FALSE, << >>)
ClarifyNoOptions == Value("clarify", FALSE, "", FALSE, << >>)
ClarifyEmptyOptions == Value("clarify", FALSE, "", TRUE, << >>)
EmptyObject == Value("", FALSE, "", FALSE, << >>)
NoValue == EmptyObject
Values == { TranslateValue, ClarifyValue, TranslateNoText, ClarifyNoOptions,
            ClarifyEmptyOptions, EmptyObject }

\* Body of a 2xx response.  body: response.json() resolves; present: the
\* body has data.candidates[0].content.parts[0].text; json: that text is
\* JSON, parsing to `value`; raw: the text itself.
Content(body, present, json, raw, value) ==
    [body |-> body, present |-> present, json |-> json, raw |-> raw, value |-> value]
NoContent == Content(TRUE, FALSE, FALSE, "", NoValue)
Contents ==
    { Content(FALSE, FALSE, FALSE, "", NoValue),
      NoContent,
      Content(TRUE, TRUE, FALSE, "plain text", NoValue) }
    \cup { Content(TRUE, TRUE, TRUE, "{json}", v) : v \in Values }
NoErrBody == [parsable |-> FALSE, message |-> "", raw |-> ""]

\* What one fetch() can produce: a response, or a rejection (status 0).
STATUS_REJECTED == 0
Responses ==
    { [status |-> 200, content |-> c, err |-> NoErrBody] : c \in Contents }
    \cup { [status |-> st, content |-> NoContent, err |-> e] :
             st \in {429, 500}, e \in ErrBodies }
    \cup { [status |-> STATUS_REJECTED, content |-> NoContent, err |-> NoErrBody] }

ResponseOk(status) == status >= 200 /\ status <= 299

RECURSIVE Pow2(_)
Pow2(n) == IF n = 0 THEN 1 ELSE 2 * Pow2(n - 1)

\* (variant: every failed fetch is retried, not only a 429)
ShouldRetryAnyFailure(status, attempt) == ~ResponseOk(status) /\ attempt < MAX_RETRIES

\* (variant: `attempt <= maxRetries` for `attempt < maxRetries`)
ShouldRetryOffByOne(status, attempt) == status = 429 /\ attempt <= MAX_RETRIES

\* fetchWithRetry, one pass of the loop body after the fetch of `attempt`
\* has answered with `status`: TRUE when the loop waits and continues.
ShouldRetry(status, attempt) == status = 429 /\ attempt < MAX_RETRIES

\* (variant: a linear backoff, 2 s, 4 s, 6 s)
WaitMsLinear(attempt) == (attempt + 1) * BACKOFF_BASE_MS

WaitMs(attempt) == Pow2(attempt) * BACKOFF_BASE_MS

Threw(m) == [threw |-> TRUE, error |-> m, value |-> NoValue]
Returned(v) == [threw |-> FALSE, error |-> NoMessage, value |-> v]

\* analyzeAndTranslate from the response fetchWithRetry returned
AnalyzeAndTranslate(resp, text) ==
    IF resp.status = STATUS_REJECTED THEN Threw(Message(MSG_FETCH_FAILED, 0, ""))
    ELSE IF ~ResponseOk(resp.status)
    THEN IF resp.status = 429
         THEN Threw(Message(MSG_RATE_LIMIT, 0, ErrDetail(resp.err)))
         ELSE Threw(Message(MSG_API_ERROR, resp.status, ErrDetail(resp.err)))
    ELSE IF ~resp.content.body THEN Threw(Message(MSG_BODY_NOT_JSON, 0, ""))
    ELSE IF ~resp.content.present \/ resp.content.raw = ""
    THEN Threw(Message(MSG_NO_CONTENT, 0, ""))
    ELSE IF resp.content.json THEN Returned(resp.content.value)
    ELSE Threw(Message(MSG_BAD_FORMAT, 0, ""))

\* translateClarified from the response fetchWithRetry returned
TranslateClarified(resp, clarifiedText) ==
    IF resp.status = STATUS_REJECTED THEN Threw(Message(MSG_FETCH_FAILED, 0, ""))
    ELSE IF ~ResponseOk(resp.status)
    THEN Threw(Message(MSG_TRANSLATE_FAILED, 0, ErrDetail(resp.err)))
    ELSE IF ~resp.content.body THEN Threw(Message(MSG_BODY_NOT_JSON, 0, ""))
    ELSE IF resp.content.present /\ resp.content.json
    THEN Returned(resp.content.value)
    ELSE Returned([Value("translate", TRUE,
                         IF resp.content.present /\ resp.content.raw # ""
                         THEN resp.content.raw ELSE clarifiedText,
                         FALSE, << >>) EXCEPT !.original = clarifiedText])

(* ------------------------------ state ---------------------------------- *)
VARIABLES
    now,          \* index into Instants: the current wall-clock instant
    usage,        \* localStorage['gemini_usage']
    keyOverride,  \* localStorage['gemini_api_key'] ("" when absent)
    isRecording,  \* app.js isRecording
    loading,      \* number of #loading-indicator elements in the chat area
    rounds,       \* bag of the rounds: one beginRecording / translateText
                  \* invocation each (activations carry no identity)
    probe,        \* what the last direct call of a quota or backend function returned
    log,          \* history: the instant of every recordRequest() call so far
    stt,          \* speech.js: the recognition session of one startListening() call
    history,      \* localStorage['translation_history']
    saved,        \* history: the number of saveEntry() calls so far
    tabs          \* per browser tab: the recordRequest() call it is executing

vars == << now, usage, keyOverride, isRecording, loading, rounds, probe, log,
           stt, history, saved, tabs >>

Now == Instants[now]

\* A round.  kind: "voice" | "text"; pc: where the async function is
\* suspended ("timer": the 150 ms press timer is pending, "listening",
\* "fetch": a fetch of fetchWithRetry is in flight, "backoff": its retry
\* timer is pending, "clarify": waiting for an option, "done"); armed: the
\* pending timer is the one app.js's pressTimer names; call: the backend
\* function that is running; text: its input; attempt/statuses/waits: the
\* loop variable of fetchWithRetry, the statuses it has seen and the delays
\* it has slept in this call; options: the buttons of the round's clarify
\* bubble; selected: the value of the button that was clicked (the buttons
\* are disabled from then on).  The remaining fields are the round's history:
\* calls = backend functions invoked, netCalls = those that issued a fetch,
\* checked = those invoked after a canRequest() that allowed, with no other
\* backend call of the round in between (fresh: such a check is pending),
\* records = recordRequest() calls, lastCall/lastStatus = the backend
\* function that settled last and the status it got, outcome/toast/delivered
\* = how the round ended, the toast it showed, the translation it delivered.
NewRound ==
    [kind |-> "none", pc |-> "new", armed |-> FALSE, call |-> "none", text |-> "",
     attempt |-> 0, statuses |-> << >>, waits |-> << >>, options |-> << >>,
     selected |-> "", calls |-> 0, netCalls |-> 0, checked |-> 0, records |-> 0, fresh |-> FALSE,
     lastCall |-> "none", lastStatus |-> STATUS_REJECTED,
     outcome |-> "none", toast |-> NoMessage, delivered |-> ""]

Texts == { "hello" }

Live == BagToSet(rounds)
Started == BagCardinality(rounds)
Put(rd) == rounds (+) SetToBag({rd})
Replace(rd, nx) == (rounds (-) SetToBag({rd})) (+) SetToBag({nx})

\* Usage blobs an earlier session can have left behind at T0: n requests in
\* the last few milliseconds and d requests so far today.
PrefillStamps(n) == [i \in 1 .. n |-> T0 - (n - i)]
Prefill(n, d) ==
    [kind |-> "json", minuteTimestamps |-> PrefillStamps(n),
     dayStart |-> StartOfDay(T0), dayCount |-> d]

\* op: the function called; at: the instant; seen: how many recordRequest()
\* calls had been made; then what it returned.
NoProbe == [op |-> "none", at |-> 1, seen |-> 0, allowed |-> FALSE, reason |-> "",
            rpmUsed |-> 0, rpmRemaining |-> 0, resetInSec |-> 0,
            rpdUsed |-> 0, rpdRemaining |-> 0, entries |-> << >>]

\* (requests in the last minute, requests today) the page is opened with
RoundPrefills == { << 0, 0 >>, << MAX_RPM - 1, MAX_RPM - 1 >>,
                   << MAX_RPM - 1, MAX_RPD - 1 >>, << MAX_RPM, MAX_RPD >> }

\* The promise startListening() returns ("none": not called yet) and the
\* recognition session behind it.  session: "none" | "active" (start() was
\* called) | "ended" (the end event was delivered); segments: the local
\* array of startListening; stopping: stop() was called; error: the
\* event.error the session reported ("" when none).
NoPromise == [state |-> "none", value |-> ""]
NoSession ==
    [session |-> "none", segments |-> << >>, stopping |-> FALSE,
     error |-> "", promise |-> NoPromise]

\* The browser tabs that share localStorage, and what a tab holds while it
\* executes recordRequest(): the data getCleanUsage() returned to it.  done:
\* the recordRequest() calls the tab has completed.
Tabs == { 1, 2 }
IdleTab == [pc |-> "idle", data |-> AbsentBlob, done |-> 0]
IdleTabs == [t \in Tabs |-> IdleTab]

InitWith(blob, stamps) ==
    /\ now = 1
    /\ usage = blob
    /\ log = stamps
    /\ isRecording = FALSE
    /\ loading = 0
    /\ rounds = EmptyBag
    /\ probe = NoProbe
    /\ stt = NoSession
    /\ tabs = IdleTabs
    /\ saved = 0

Init ==
    /\ \E c \in RoundPrefills : InitWith(Prefill(c[1], c[2]), PrefillStamps(c[1]))
    /\ keyOverride \in { "", "key" }
    /\ history = AbsentBlob

(* ------------------------------ ui.js ---------------------------------- *)
ShowLoading(n) == n + 1
HideLoading(n) == IF n > 0 THEN n - 1 ELSE 0

MSG_UNDEFINED_REPLACE == "undefined-replace"  \* TypeError of escapeAttr(undefined)
MSG_NOT_ITERABLE == "options-not-iterable"    \* TypeError of `for (... of undefined)`

\* addTranslationBubble(result.translated, ...): escapeAttr(text) calls
\* text.replace
AddTranslationBubble(value) ==
    IF value.hasTranslated THEN Returned(value)
    ELSE Threw(Message(MSG_UNDEFINED_REPLACE, 0, ""))

\* addClarifyBubble(result) up to the return of its promise: the executor
\* iterates data.options; a throw there rejects the promise
AddClarifyBubble(value) ==
    IF value.hasOptions THEN Returned(value)
    ELSE Threw(Message(MSG_NOT_ITERABLE, 0, ""))

(* ------------------------------ app.js --------------------------------- *)
MSG_NO_SPEECH == "no-speech-detected"    \* '沒有偵測到語音，請再試一次'
MSG_STT_ERROR == "speech-recognition-error" \* '語音辨識錯誤: <event.error>'

\* The round is over: only its history is kept.
Finished(rd, outcome, toast, delivered) ==
    [NewRound EXCEPT !.pc = "done", !.kind = rd.kind,
                     !.calls = rd.calls, !.netCalls = rd.netCalls,
                     !.checked = rd.checked, !.records = rd.records,
                     !.lastCall = rd.lastCall, !.lastStatus = rd.lastStatus,
                     !.outcome = outcome, !.toast = toast, !.delivered = delivered]

\* (variant: the catch block shows no toast)
CaughtSilently(rd, m) == Finished(rd, "error", NoMessage, "")

\* catch (err) { hideLoading(); showToast(err.message) } of both entry points
Caught(rd, m) == Finished(rd, "error", m, "")

\* (variant: beginRecording without its finally block)
AfterFinallyMissing(rd, rec) == rec

\* finally { isRecording = false } of beginRecording; translateText has none
AfterFinally(rd, rec) == IF rd.kind = "voice" THEN FALSE ELSE rec

HasKey == GetApiKey(keyOverride) # ""

\* (variant: the backend function without its `if (!apiKey) throw`)
InvokeNoKeyCheck(rd, fn, text) ==
    [rd EXCEPT !.calls = @ + 1,
               !.checked = IF rd.fresh THEN @ + 1 ELSE @,
               !.fresh = FALSE, !.lastCall = fn, !.text = text,
               !.pc = "fetch", !.call = fn, !.attempt = 0,
               !.statuses = << >>, !.waits = << >>, !.options = << >>,
               !.netCalls = @ + 1]

\* The round calls a backend function (analyzeAndTranslate or
\* translateClarified) with `text`: the key check, then the first fetch of
\* fetchWithRetry.
Invoke(rd, fn, text) ==
    LET c == [rd EXCEPT !.calls = @ + 1,
                        !.checked = IF rd.fresh THEN @ + 1 ELSE @,
                        !.fresh = FALSE, !.lastCall = fn, !.text = text]
    IN  IF HasKey
        THEN [c EXCEPT !.pc = "fetch", !.call = fn, !.attempt = 0,
                       !.statuses = << >>, !.waits = << >>, !.options = << >>,
                       !.netCalls = @ + 1]
        ELSE Caught(c, Message(MSG_NO_KEY, 0, ""))

\* showLoading() followed by a backend call that either suspends or throws
\* into the catch block (hideLoading())
LoadingAfterInvoke(nx) ==
    IF nx.pc = "done" THEN HideLoading(ShowLoading(loading)) ELSE ShowLoading(loading)

\* (variant: recordRequest() made before the pre-flight check)
TranslateTextRecordsFirst(text, limit) ==
    /\ Started < limit
    /\ usage' = RecordRequest(usage, Now)
    /\ log' = Append(log, Now)
    /\ LET check == CanRequest(usage', Now)
           rd == [NewRound EXCEPT !.kind = "text"]
       IN  IF ~check.allowed
           THEN /\ rounds' = Put(Finished(rd, "denied", Message(check.reason, 0, ""), ""))
                /\ UNCHANGED loading
           ELSE LET nx == Invoke([rd EXCEPT !.fresh = TRUE], "analyze", text)
                IN  /\ rounds' = Put(nx)
                    /\ loading' = LoadingAfterInvoke(nx)
    /\ UNCHANGED << now, keyOverride, stt, history, saved, tabs, isRecording, probe >>

\* translateText(text), up to its first await
TranslateText(text, limit) ==
    /\ Started < limit
    /\ LET check == CanRequest(usage, Now)
           rd == [NewRound EXCEPT !.kind = "text"]
       IN  IF ~check.allowed
           THEN /\ rounds' = Put(Finished(rd, "denied", Message(check.reason, 0, ""), ""))
                /\ UNCHANGED loading
           ELSE LET nx == Invoke([rd EXCEPT !.fresh = TRUE], "analyze", text)
                IN  /\ rounds' = Put(nx)
                    /\ loading' = LoadingAfterInvoke(nx)
    /\ UNCHANGED << now, usage, keyOverride, stt, history, saved, tabs, isRecording, probe, log >>

\* onPressStart: arms the 150 ms timer unless a recording is running;
\* pressTimer now names the new timer
Disarm(rd) == [rd EXCEPT !.armed = FALSE]

PressStart(limit) ==
    /\ ~isRecording
    /\ Started < limit
    /\ rounds' = BagOfAll(Disarm, rounds)
                 (+) SetToBag({[NewRound EXCEPT !.kind = "voice", !.pc = "timer",
                                                !.armed = TRUE]})
    /\ UNCHANGED << now, usage, keyOverride, stt, history, saved, tabs, isRecording, loading, probe, log >>

\* onPressEnd before the timer has fired: clearTimeout(pressTimer), so
\* beginRecording is never called.  (After it has fired, onPressEnd only
\* calls stopListening(); the recognition may end at any moment anyway, see
\* ListenResolved.)
PressEnd(rd) ==
    /\ rd.pc = "timer"
    /\ rd.armed
    /\ rounds' = rounds (-) SetToBag({rd})
    /\ UNCHANGED << now, usage, keyOverride, stt, history, saved, tabs, isRecording, loading, probe, log >>

\* the 150 ms timer fires: beginRecording() up to its await
BeginRecording(rd) ==
    /\ rd.pc = "timer"
    /\ LET check == CanRequest(usage, Now)
       IN  IF ~check.allowed
           THEN /\ rounds' = Replace(rd, Finished(rd, "denied",
                                                  Message(check.reason, 0, ""), ""))
                /\ UNCHANGED isRecording
           ELSE /\ rounds' = Replace(rd, [rd EXCEPT !.pc = "listening",
                                                    !.armed = FALSE, !.fresh = TRUE])
                /\ isRecording' = TRUE
    /\ UNCHANGED << now, usage, keyOverride, stt, history, saved, tabs, loading, probe, log >>

\* listenPromise resolves (recognition ended, was stopped, or heard nothing)
ListenResolved(rd, text) ==
    /\ rd.pc = "listening"
    /\ IF text = ""
       THEN /\ rounds' = Replace(rd, Finished(rd, "nospeech",
                                              Message(MSG_NO_SPEECH, 0, ""), ""))
            /\ isRecording' = FALSE
            /\ UNCHANGED loading
       ELSE LET nx == Invoke(rd, "analyze", text)
            IN  /\ rounds' = Replace(rd, nx)
                /\ loading' = LoadingAfterInvoke(nx)
                /\ isRecording' = IF nx.pc = "done" THEN FALSE ELSE isRecording
    /\ UNCHANGED << now, usage, keyOverride, stt, history, saved, tabs, probe, log >>

\* listenPromise rejects (a recognition error other than no-speech/aborted)
ListenRejected(rd) ==
    /\ rd.pc = "listening"
    /\ rounds' = Replace(rd, Caught(rd, Message(MSG_STT_ERROR, 0, "")))
    /\ loading' = HideLoading(loading)
    /\ isRecording' = FALSE
    /\ UNCHANGED << now, usage, keyOverride, stt, history, saved, tabs, probe, log >>

\* #btn-back click while recording
BackClick ==
    /\ isRecording
    /\ isRecording' = FALSE
    /\ UNCHANGED << now, usage, keyOverride, stt, history, saved, tabs, loading, rounds, probe, log >>

\* clearChat(): the chat area is replaced by the placeholder, so the loading
\* indicators and the bubbles are gone; a round that waits for a click on
\* its clarify bubble has no button left
\* (variant: clearing the chat cancels a round that waits for a selection)
ClearChatCancels(rd) == IF rd.pc = "clarify" THEN Caught(rd, NoMessage) ELSE rd

ClearChat(rd) == IF rd.pc = "clarify" THEN [rd EXCEPT !.options = << >>] ELSE rd

\* .role-card click.  The role screen is reached from the translate screen
\* with #btn-back, whose handler changes nothing else when no recording
\* runs; fromLang, toLang and the quota refresh timer are not modelled.
RoleSelect ==
    /\ loading' = 0
    /\ rounds' = LET cleared == { ClearChat(rd) : rd \in Live }
                      Sources(nx) == { rd \in Live : ClearChat(rd) = nx }
                  IN  [nx \in cleared |->
                          BagCardinality([rd \in Sources(nx) |-> rounds[rd]])]
    /\ UNCHANGED << now, usage, keyOverride, stt, history, saved, tabs, isRecording, probe, log >>

\* fetchWithRetry: the fetch answered 429 and retries are left; the loop
\* starts the backoff timer
FetchRateLimited(rd, resp) ==
    /\ rd.pc = "fetch"
    /\ ShouldRetry(resp.status, rd.attempt)
    /\ rounds' = Replace(rd, [rd EXCEPT !.pc = "backoff",
                                        !.statuses = Append(@, resp.status),
                                        !.waits = Append(@, WaitMs(rd.attempt))])
    /\ UNCHANGED << now, usage, keyOverride, stt, history, saved, tabs, isRecording, loading, probe, log >>

\* fetchWithRetry: the backoff timer fires; continue with the next attempt
BackoffElapsed(rd) ==
    /\ rd.pc = "backoff"
    /\ rounds' = Replace(rd, [rd EXCEPT !.pc = "fetch", !.attempt = @ + 1])
    /\ UNCHANGED << now, usage, keyOverride, stt, history, saved, tabs, isRecording, loading, probe, log >>

\* The rest of the round after a backend function has settled with `res`
\* (the code after `await analyzeAndTranslate(...)` resp.
\* `await translateClarified(...)`), with the catch and finally blocks.
Settle(rd0, resp, res) ==
    LET rd == [rd0 EXCEPT !.lastStatus = resp.status]
        rec == [rd EXCEPT !.records = @ + 1]
    IN  IF res.threw
        THEN /\ rounds' = Replace(rd0, Caught(rd, res.error))
             /\ loading' = HideLoading(loading)
             /\ isRecording' = AfterFinally(rd, isRecording)
             /\ UNCHANGED << usage, log >>
        ELSE /\ usage' = RecordRequest(usage, Now)
             /\ log' = Append(log, Now)
             /\ LET shown == IF rd.call = "analyze" /\ res.value.type = "clarify"
                             THEN AddClarifyBubble(res.value)
                             ELSE AddTranslationBubble(res.value)
                IN  IF shown.threw
                    THEN /\ rounds' = Replace(rd0, Caught(rec, shown.error))
                         /\ loading' = HideLoading(HideLoading(loading))
                         /\ isRecording' = AfterFinally(rd, isRecording)
                    ELSE IF rd.call = "analyze" /\ res.value.type = "clarify"
                    THEN /\ rounds' = Replace(rd0,
                               [rec EXCEPT !.pc = "clarify", !.call = "none", !.text = "",
                                           !.attempt = 0, !.statuses = << >>,
                                           !.waits = << >>,
                                           !.options = res.value.options])
                         /\ loading' = HideLoading(loading)
                         /\ UNCHANGED isRecording
                    ELSE /\ rounds' = Replace(rd0,
                               Finished(rec, "delivered", NoMessage, res.value.translated))
                         /\ loading' = HideLoading(loading)
                         /\ isRecording' = AfterFinally(rd, isRecording)

\* fetchWithRetry returns (or fetch rejects) inside analyzeAndTranslate
AnalyzeResponded(rd, resp) ==
    /\ rd.pc = "fetch"
    /\ rd.call = "analyze"
    /\ ~ShouldRetry(resp.status, rd.attempt)
    /\ Settle(rd, resp, AnalyzeAndTranslate(resp, rd.text))
    /\ UNCHANGED << now, keyOverride, stt, history, saved, tabs, probe >>

\* (variant: the buttons stay enabled and every click resumes the round)
SelectOptionRepeatable(rd, i) ==
    /\ rd.pc \in { "clarify", "fetch", "backoff" }
    /\ rd.options # << >>
    /\ i \in DOMAIN rd.options
    /\ LET nx == Invoke(rd, "clarified", rd.options[i])
       IN  /\ rounds' = Replace(rd, IF nx.pc = "done" THEN nx
                                    ELSE [nx EXCEPT !.options = rd.options,
                                                    !.selected = rd.options[i]])
           /\ loading' = LoadingAfterInvoke(nx)
           /\ isRecording' = IF nx.pc = "done" THEN AfterFinally(rd, isRecording)
                             ELSE isRecording
    /\ UNCHANGED << now, usage, keyOverride, stt, history, saved, tabs, probe, log >>

\* a .clarify-option button is clicked: the handler disables every button
\* of the bubble and resolves addClarifyBubble's promise with the button's
\* value; the round shows the loader and calls translateClarified.  A
\* disabled button dispatches no click, so the handler runs only while no
\* button of the bubble has been clicked.
SelectOption(rd, i) ==
    /\ rd.pc = "clarify"
    /\ rd.selected = ""
    /\ i \in DOMAIN rd.options
    /\ LET nx == Invoke(rd, "clarified", rd.options[i])
       IN  /\ rounds' = Replace(rd, IF nx.pc = "done" THEN nx
                                    ELSE [nx EXCEPT !.options = rd.options,
                                                    !.selected = rd.options[i]])
           /\ loading' = LoadingAfterInvoke(nx)
           /\ isRecording' = IF nx.pc = "done" THEN AfterFinally(rd, isRecording)
                             ELSE isRecording
    /\ UNCHANGED << now, usage, keyOverride, stt, history, saved, tabs, probe, log >>

\* fetchWithRetry returns (or fetch rejects) inside translateClarified
ClarifiedResponded(rd, resp) ==
    /\ rd.pc = "fetch"
    /\ rd.call = "clarified"
    /\ ~ShouldRetry(resp.status, rd.attempt)
    /\ Settle(rd, resp, TranslateClarified(resp, rd.text))
    /\ UNCHANGED << now, keyOverride, stt, history, saved, tabs, probe >>

\* time passes
Tick ==
    /\ now < Len(Instants)
    /\ now' = now + 1
    /\ UNCHANGED << usage, keyOverride, stt, history, saved, tabs, isRecording, loading, rounds, probe, log >>

RoundStep(limit) ==
    \/ \E text \in Texts : TranslateText(text, limit)
    \/ PressStart(limit)
    \/ \E rd \in Live : PressEnd(rd)
    \/ \E rd \in Live : BeginRecording(rd)
    \/ \E rd \in Live, text \in Texts \cup { "" } : ListenResolved(rd, text)
    \/ \E rd \in Live : ListenRejected(rd)
    \/ BackClick
    \/ RoleSelect
    \/ \E rd \in Live, resp \in Responses : FetchRateLimited(rd, resp)
    \/ \E rd \in Live : BackoffElapsed(rd)
    \/ \E rd \in Live, resp \in Responses : AnalyzeResponded(rd, resp)
    \/ \E rd \in Live : \E i \in DOMAIN rd.options : SelectOption(rd, i)
    \/ \E rd \in Live, resp \in Responses : ClarifiedResponded(rd, resp)

Next ==
    \/ Tick
    \/ RoundStep(MaxRounds)

Spec == Init /\ [][Next]_vars

(* ----------------- the quota tracker called directly ------------------- *)
QuotaBlobs ==
    { AbsentBlob, InvalidBlob }
    \cup { Prefill(n, d) : n \in { 0, MAX_RPM - 1, MAX_RPM },
                           d \in { MAX_RPM, MAX_RPD - 1, MAX_RPD } }

StampsOf(blob) == IF blob.kind = "json" THEN blob.minuteTimestamps ELSE << >>

\* history blobs an earlier session can have left behind
HistoryBlobs == { AbsentBlob, InvalidBlob, HistoryPrefill(2) }

QuotaInit ==
    /\ \E blob \in QuotaBlobs : InitWith(blob, StampsOf(blob))
    /\ keyOverride = "key"
    /\ history \in HistoryBlobs

\* recordRequest()
QRecordRequest ==
    /\ Len(log) < MAX_RPM + MaxRecords
    /\ usage' = RecordRequest(usage, Now)
    /\ log' = Append(log, Now)
    /\ UNCHANGED << now, keyOverride, stt, history, saved, tabs, isRecording, loading, rounds, probe >>

Snapshot(op, q, c) ==
    [op |-> op, at |-> now, seen |-> Len(log),
     allowed |-> c.allowed, reason |-> c.reason,
     rpmUsed |-> q.rpm.used, rpmRemaining |-> q.rpm.remaining,
     resetInSec |-> IF op = "canRequest" THEN c.resetInSec ELSE q.rpm.resetInSec,
     rpdUsed |-> q.rpd.used, rpdRemaining |-> q.rpd.remaining, entries |-> << >>]

\* getQuota(): reads and cleans the stored usage; writes nothing back
QGetQuota ==
    /\ probe' = Snapshot("getQuota", GetQuota(usage, Now), NoProbe)
    /\ UNCHANGED << now, usage, keyOverride, stt, history, saved, tabs, isRecording, loading, rounds, log >>

\* canRequest()
QCanRequest ==
    /\ probe' = Snapshot("canRequest", GetQuota(usage, Now), CanRequest(usage, Now))
    /\ UNCHANGED << now, usage, keyOverride, stt, history, saved, tabs, isRecording, loading, rounds, log >>

\* getHistory()
HGetHistory ==
    /\ probe' = [NoProbe EXCEPT !.op = "getHistory", !.at = now, !.seen = Len(log),
                                 !.entries = GetHistory(history)]
    /\ UNCHANGED << now, usage, keyOverride, stt, history, saved, tabs, isRecording, loading, rounds, log >>

QuotaNext ==
    \/ Tick
    \/ QRecordRequest
    \/ QGetQuota
    \/ QCanRequest
    \/ HGetHistory

QuotaSpec == QuotaInit /\ [][QuotaNext]_vars

(* ------------------ one typed round, backend and timers fair ------------ *)
FetchNext ==
    \/ Tick
    \/ \E text \in Texts : TranslateText(text, 1)
    \/ RoleSelect
    \/ \E rd \in Live, resp \in Responses : FetchRateLimited(rd, resp)
    \/ \E rd \in Live : BackoffElapsed(rd)
    \/ \E rd \in Live, resp \in Responses : AnalyzeResponded(rd, resp)
    \/ \E rd \in Live : \E i \in DOMAIN rd.options : SelectOption(rd, i)
    \/ \E rd \in Live, resp \in Responses : ClarifiedResponded(rd, resp)

\* every fetch in flight is answered (with any response), every backoff
\* timer fires
Answered ==
    \E rd \in Live, resp \in Responses :
        \/ FetchRateLimited(rd, resp)
        \/ AnalyzeResponded(rd, resp)
        \/ ClarifiedResponded(rd, resp)

TimerFired == \E rd \in Live : BackoffElapsed(rd)

FetchSpec ==
    /\ Init
    /\ [][FetchNext]_vars
    /\ WF_vars(Answered)
    /\ WF_vars(TimerFired)

(* ------------- the backend functions applied to one response ----------- *)
\* inputs of the backend functions: a typed text, the values of clarify
\* options, and the text the backend writes in the `original` field
BackendTexts == Texts \cup { "A", "B", "src" }

BackendInit ==
    /\ InitWith(AbsentBlob, << >>)
    /\ keyOverride = "key"
    /\ history = AbsentBlob

Outcome(fn, resp, text, res) ==
    [op |-> fn, resp |-> resp, text |-> text, result |-> res]

\* analyzeAndTranslate(text) when fetchWithRetry returns `resp`
BAnalyzeAndTranslate ==
    /\ \E resp \in Responses, text \in BackendTexts :
          probe' = Outcome("analyze", resp, text, AnalyzeAndTranslate(resp, text))
    /\ UNCHANGED << now, usage, keyOverride, stt, history, saved, tabs, isRecording, loading, rounds, log >>

\* translateClarified(clarifiedText) when fetchWithRetry returns `resp`
BTranslateClarified ==
    /\ \E resp \in Responses, text \in BackendTexts :
          probe' = Outcome("clarified", resp, text, TranslateClarified(resp, text))
    /\ UNCHANGED << now, usage, keyOverride, stt, history, saved, tabs, isRecording, loading, rounds, log >>

BackendNext ==
    \/ BAnalyzeAndTranslate
    \/ BTranslateClarified

BackendSpec == BackendInit /\ [][BackendNext]_vars

(* --------------------- speech.js: one capture session ------------------ *)
MSG_UNSUPPORTED == "speech-unsupported"  \* '此瀏覽器不支援語音辨識'

\* `語音辨識錯誤: ${event.error}`
SttErrorMessage(error) == MSG_STT_ERROR \o ": " \o error

\* the values of event.error of a SpeechRecognitionErrorEvent that occur here
SttErrors == { "no-speech", "aborted", "network", "not-allowed" }

\* the transcripts of final results
Transcripts == { "a", "b" }

\* segments.join('')
RECURSIVE Join(_)
Join(segments) ==
    IF segments = << >> THEN "" ELSE Head(segments) \o Join(Tail(segments))

\* The resolve and reject functions of a promise: the first call settles it,
\* later calls have no effect.
ResolveLastWins(promise, value) == [state |-> "resolved", value |-> value]
Resolve(promise, value) ==
    IF promise.state = "pending" THEN [state |-> "resolved", value |-> value]
    ELSE promise
Reject(promise, message) ==
    IF promise.state = "pending" THEN [state |-> "rejected", value |-> message]
    ELSE promise

\* startListening(lang): the executor of the promise
StartListening ==
    /\ stt.promise.state = "none"
    /\ \E supported \in BOOLEAN :
          stt' = IF ~supported
                 THEN [stt EXCEPT !.promise =
                          Reject([state |-> "pending", value |-> ""], MSG_UNSUPPORTED)]
                 ELSE [stt EXCEPT !.session = "active", !.segments = << >>,
                                  !.promise = [state |-> "pending", value |-> ""]]
    /\ UNCHANGED << now, usage, keyOverride, history, saved, tabs, isRecording, loading,
                    rounds, probe, log >>

\* recognition.onresult with one new final result
OnResult(transcript) ==
    /\ stt.session = "active"
    /\ Len(stt.segments) < MaxSegments
    /\ stt.error = ""
    /\ stt' = [stt EXCEPT !.segments = Append(@, transcript)]
    /\ UNCHANGED << now, usage, keyOverride, history, saved, tabs, isRecording, loading,
                    rounds, probe, log >>

\* recognition.onerror; a session reports one error and delivers no result
\* after it
OnError(error) ==
    /\ stt.session = "active"
    /\ stt.error = ""
    /\ stt' = [stt EXCEPT
                 !.promise = IF error \in { "no-speech", "aborted" }
                             THEN Resolve(@, Join(stt.segments))
                             ELSE Reject(@, SttErrorMessage(error)),
                 !.error = error]
    /\ UNCHANGED << now, usage, keyOverride, history, saved, tabs, isRecording, loading,
                    rounds, probe, log >>

\* recognition.onend
OnEnd ==
    /\ stt.session = "active"
    /\ stt' = [stt EXCEPT !.promise = Resolve(@, Join(stt.segments)),
                          !.session = "ended"]
    /\ UNCHANGED << now, usage, keyOverride, history, saved, tabs, isRecording, loading,
                    rounds, probe, log >>

\* stopListening(): recognition.stop() makes the browser return what it has
\* captured and end the session; on a session that has ended it does nothing
StopListening ==
    /\ stt.session # "none"
    /\ stt' = IF stt.session = "active"
              THEN [stt EXCEPT !.stopping = TRUE]
              ELSE stt
    /\ UNCHANGED << now, usage, keyOverride, history, saved, tabs, isRecording, loading,
                    rounds, probe, log >>

ListenInit ==
    /\ InitWith(AbsentBlob, << >>)
    /\ keyOverride = "key"
    /\ history = AbsentBlob

ListenNext ==
    \/ StartListening
    \/ \E transcript \in Transcripts : OnResult(transcript)
    \/ \E error \in SttErrors : OnError(error)
    \/ OnEnd
    \/ StopListening

\* a session that was stopped, or that reported an error, ends
EndDelivered == (stt.stopping \/ stt.error # "") /\ OnEnd

ListenSpec ==
    /\ ListenInit
    /\ [][ListenNext]_vars
    /\ WF_vars(EndDelivered)

(* ----------------- recordRequest() in two tabs of one origin ------------ *)
\* Each tab runs its script on its own thread; localStorage is shared and
\* getItem/setItem are the atomic steps, so the read and the write of one
\* recordRequest() can be separated by a step of the other tab.

\* recordRequest(): `const data = getCleanUsage()`
TabRead(t) ==
    /\ tabs[t].pc = "idle"
    /\ Cardinality({ o \in Tabs : tabs[o].pc = "read" })
          + tabs[1].done + tabs[2].done < MaxTabRecords
    /\ tabs' = [tabs EXCEPT ![t] = [@ EXCEPT !.pc = "read",
                                             !.data = GetCleanUsage(usage, Now)]]
    /\ UNCHANGED << now, usage, keyOverride, stt, history, saved, isRecording, loading,
                    rounds, probe, log >>

\* recordRequest(): push, increment, saveUsageData(data)
TabWrite(t) ==
    /\ tabs[t].pc = "read"
    /\ usage' = RecordInto(tabs[t].data, Now)
    /\ log' = Append(log, Now)
    /\ tabs' = [tabs EXCEPT ![t] = [IdleTab EXCEPT !.done = tabs[t].done + 1]]
    /\ UNCHANGED << now, keyOverride, stt, history, saved, isRecording, loading,
                    rounds, probe >>

\* time passes between calls: a call reads and writes within one millisecond
TabTick ==
    /\ \A t \in Tabs : tabs[t].pc = "idle"
    /\ Tick

TabsInit ==
    /\ \E blob \in { AbsentBlob, Prefill(MAX_RPM - 1, MAX_RPM - 1) } :
          InitWith(blob, StampsOf(blob))
    /\ keyOverride = "key"
    /\ history = AbsentBlob

TabsNext ==
    \/ TabTick
    \/ \E t \in Tabs : TabRead(t)
    \/ \E t \in Tabs : TabWrite(t)

TabsSpec == TabsInit /\ [][TabsNext]_vars

(* ------------------- the history store called directly ---------------- *)
HistoryInit ==
    /\ InitWith(AbsentBlob, << >>)
    /\ keyOverride = "key"
    /\ history \in HistoryBlobs \cup { HistoryPrefill(MAX_ENTRIES - 1),
                                       HistoryPrefill(MAX_ENTRIES) }

\* saveEntry(entry)
HSaveEntry ==
    /\ saved < MaxSaves
    /\ history' = SaveEntry(history, saved + 1)
    /\ saved' = saved + 1
    /\ UNCHANGED << now, usage, keyOverride, stt, tabs, isRecording, loading,
                    rounds, probe, log >>

\* clearHistory()
HClearHistory ==
    /\ history' = ClearHistory(history)
    /\ UNCHANGED << now, usage, keyOverride, stt, saved, tabs, isRecording, loading,
                    rounds, probe, log >>

HistoryNext ==
    \/ HSaveEntry
    \/ HClearHistory
    \/ HGetHistory

HistorySpec == HistoryInit /\ [][HistoryNext]_vars

(* ------------------------------ claims --------------------------------- *)
\* recordRequest() calls among the first k whose instant is less than 60 s
\* before t (and not after t)
CallsWithin(k, t) ==
    Cardinality({ i \in 1 .. k : log[i] > t - MINUTE_MS /\ log[i] <= t })

DayCountOf(blob) == IF blob.kind = "json" THEN blob.dayCount ELSE 0

\* C1: the recorded requests inside the trailing 60-second window never
\* exceed 15 and the day counter never exceeds 1500, for every sequence of
\* voice and typed rounds.
C1_CeilingsNeverExceeded ==
    /\ CallsWithin(Len(log), Now) <= MAX_RPM
    /\ DayCountOf(usage) <= MAX_RPD

\* C2: canRequest() denies with the daily reason whenever the cleaned day
\* count is >= 1500, whatever the minute window; denies with the per-minute
\* reason whenever the window holds >= 15 entries and the day count is below
\* 1500; admits otherwise.
C2_CanRequestDecision ==
    probe.op = "canRequest" =>
        IF probe.rpdUsed >= MAX_RPD
        THEN ~probe.allowed /\ probe.reason = "daily"
        ELSE IF probe.rpmUsed >= MAX_RPM
        THEN ~probe.allowed /\ probe.reason = "minute"
        ELSE probe.allowed

C2_Witness ==
    /\ probe.op = "canRequest"
    /\ probe.reason = "daily"
    /\ probe.rpmUsed >= MAX_RPM

C4_FailedCallsRecorded ==
    \A rd \in Live :
        (rd.pc = "done" /\ rd.lastStatus # STATUS_REJECTED) => rd.records = rd.netCalls

\* C5: a round denied at pre-flight, and a voice round that captured no
\* text, issues no fetch and leaves the stored quota as it was; no backend
\* call is ever made with an empty text.
C5_Aborted(rd) == rd.pc = "done" /\ rd.outcome \in { "denied", "nospeech" }

C6_GovernorAroundEveryCall ==
    \A rd \in Live :
        /\ rd.checked = rd.calls
        /\ rd.pc = "done" => rd.records = rd.netCalls

BackoffSchedule == << 2000, 4000, 8000 >>

C8_RetryOnly429WithBackoff ==
    \A rd \in Live :
        rd.pc \in { "fetch", "backoff" } =>
            /\ Len(rd.statuses) = Len(rd.waits)
            /\ Len(rd.waits) = rd.attempt + (IF rd.pc = "backoff" THEN 1 ELSE 0)
            /\ Len(rd.waits) <= Len(BackoffSchedule)
            /\ \A k \in DOMAIN rd.waits :
                  rd.statuses[k] = 429 /\ rd.waits[k] = BackoffSchedule[k]

\* 429 on attempts 1 and 2, delays of 2 s then 4 s, the third fetch in flight
C8_Witness ==
    \E rd \in Live :
        /\ rd.pc = "fetch" /\ rd.attempt = 2
        /\ rd.statuses = << 429, 429 >>
        /\ rd.waits = << 2000, 4000 >>

\* C9: when every fetch is answered and every timer fires, each
\* fetchWithRetry call ends, after at most 3 retries (4 fetches), and no
\* backoff follows the last attempt.
InCall == \E rd \in Live : rd.pc \in { "fetch", "backoff" }

C9_RetryTerminates ==
    /\ [](\A rd \in Live :
            /\ rd.attempt <= MAX_RETRIES
            /\ Len(rd.waits) <= MAX_RETRIES
            /\ rd.pc = "backoff" => rd.attempt < MAX_RETRIES)
    /\ (InCall ~> ~InCall)

\* a call that gave up: its fourth fetch was answered 429 as well
C9_Witness ==
    \E rd \in Live : rd.pc = "done" /\ rd.lastStatus = 429 /\ rd.outcome = "error"

\* C10: a backend function that gives up on 429 fails with an error that no
\* other non-2xx status makes it produce.
ErrorOf(fn, resp) ==
    IF fn = "analyze" THEN AnalyzeAndTranslate(resp, "").error
    ELSE TranslateClarified(resp, "").error

C10_RateLimitErrorDistinct ==
    \A rd \in Live :
        (rd.pc = "done" /\ rd.outcome = "error" /\ rd.lastStatus = 429) =>
            \A e \in ErrBodies :
                rd.toast # ErrorOf(rd.lastCall,
                                   [status |-> 500, content |-> NoContent, err |-> e])

\* C11: 429 is the only retried condition: a fetch answered with any other
\* status, or rejected, is followed by no backoff and no further fetch; the
\* backend call settles in the step that receives the answer, and a first
\* fetch is preceded by no delay.
C11_OnlyRateLimitRetried ==
    /\ [](\A rd \in Live :
            (rd.pc = "fetch" /\ rd.attempt = 0) => rd.waits = << >> /\ rd.statuses = << >>)
    /\ [][\A rd \in Live, nx \in BagToSet(rounds') :
            (rd.pc = "fetch" /\ rd \notin BagToSet(rounds') /\ nx \notin Live) =>
                IF nx.pc = "backoff"
                THEN nx.statuses[Len(nx.statuses)] = 429
                ELSE /\ nx.pc \in { "clarify", "done" }
                     /\ nx.lastStatus # 429 \/ rd.attempt = MAX_RETRIES
                     /\ ~ResponseOk(nx.lastStatus) =>
                            /\ nx.pc = "done" /\ nx.outcome = "error"
                            /\ nx.toast = ErrorOf(rd.call,
                                   [status |-> nx.lastStatus, content |-> NoContent,
                                    err |-> NoErrBody])
                               \/ \E e \in ErrBodies :
                                     nx.toast = ErrorOf(rd.call,
                                        [status |-> nx.lastStatus, content |-> NoContent,
                                         err |-> e])]_vars

\* a call that failed fast: its fetch was rejected, or answered 500
C11_Witness ==
    /\ \E rd \in Live : rd.pc = "done" /\ rd.toast.msg = MSG_FETCH_FAILED
                         /\ rd.lastStatus = STATUS_REJECTED

\* C12: a clarification round accepts one selection: translateClarified is
\* invoked at most once per round (so a round makes at most two backend
\* calls), its input is the value of the option that was clicked, and once
\* an option has been clicked the round no longer waits for a selection.
C12_OneSelectionPerRound ==
    \A rd \in Live :
        /\ rd.calls <= 2
        /\ rd.pc = "clarify" => rd.selected = "" /\ rd.calls = 1
        /\ rd.selected # "" =>
              /\ rd.call = "clarified" /\ rd.calls = 2
              /\ rd.text = rd.selected
              /\ \E i \in DOMAIN rd.options : rd.options[i] = rd.selected

\* the second option was clicked and translateClarified is between two
\* fetches: the bubble is still on screen
C12_Witness ==
    \E rd \in Live :
        /\ rd.pc = "backoff" /\ rd.call = "clarified"
        /\ rd.selected = "B" /\ Len(rd.options) = 2

\* C13: translateClarified always yields a translation: a round whose
\* clarified call got a 2xx response ends by delivering a translated text.
C13_ClarifiedAlwaysTranslated ==
    \A rd \in Live :
        (rd.pc = "done" /\ rd.lastCall = "clarified" /\ ResponseOk(rd.lastStatus)) =>
            /\ rd.outcome = "delivered"
            /\ rd.delivered # ""

\* C14: when the 2xx response of the clarified call does not carry a
\* complete translate object, translateClarified does not fail: it returns a
\* translate result whose text is the raw response text, or the selected
\* value when there is no text, and whose original is the selected value.
CompleteTranslate(content) ==
    /\ content.body /\ content.present /\ content.json
    /\ content.value.type = "translate" /\ content.value.hasTranslated

C14_ClarifiedFallback ==
    (/\ probe.op = "clarified"
     /\ ResponseOk(probe.resp.status)
     /\ ~CompleteTranslate(probe.resp.content)) =>
        /\ ~probe.result.threw
        /\ probe.result.value.type = "translate"
        /\ probe.result.value.hasTranslated
        /\ probe.result.value.translated =
              IF probe.resp.content.present /\ probe.resp.content.raw # ""
              THEN probe.resp.content.raw ELSE probe.text
        /\ probe.result.value.original = probe.text

\* C15: analyzeAndTranslate fails with a format error for every 2xx response
\* whose embedded text is absent, is not JSON, or is JSON without the fields
\* of a translate or a clarify object; it returns a result only for a
\* complete translate or clarify object.
CompleteResult(content) ==
    /\ content.body /\ content.present /\ content.json
    /\ \/ content.value.type = "translate" /\ content.value.hasTranslated
       \/ content.value.type = "clarify" /\ content.value.hasOptions

FormatErrors == { MSG_BODY_NOT_JSON, MSG_NO_CONTENT, MSG_BAD_FORMAT }

C15_MalformedResultRejected ==
    (probe.op = "analyze" /\ ResponseOk(probe.resp.status)) =>
        IF CompleteResult(probe.resp.content)
        THEN ~probe.result.threw /\ probe.result.value = probe.resp.content.value
        ELSE probe.result.threw /\ probe.result.error.msg \in FormatErrors

\* C16: a round that waits for a clarification offers at least one option.
C16_ClarifyHasOptions ==
    \A rd \in Live : rd.pc = "clarify" => rd.options # << >>

\* C17: every failure thrown inside a round ends the round with a toast;
\* the step that ends a failed voice round leaves isRecording false; a round
\* that has ended leaves no loading indicator behind (there are never more
\* indicators than backend calls in flight); and when no round is under way
\* isRecording is false, which is all onPressStart requires.
InFlight == { rd \in Live : rd.pc \in { "fetch", "backoff" } }

UnderWay == { rd \in Live : rd.pc \notin { "timer", "done" } }

C17_FailuresCaught ==
    /\ [](/\ \A rd \in Live :
                (rd.pc = "done" /\ rd.outcome = "error") => rd.toast.msg # ""
          /\ loading <= BagCardinality([rd \in InFlight |-> CopiesIn(rd, rounds)])
          /\ UnderWay = {} => ~isRecording /\ loading = 0)
    /\ [][\A nx \in BagToSet(rounds') :
            (/\ nx.kind = "voice" /\ nx.pc = "done" /\ nx.outcome = "error"
             /\ CopiesIn(nx, rounds') > CopiesIn(nx, rounds)) => ~isRecording']_vars

\* a voice round failed in speech capture and a round failed while
\* delivering its result; nothing is under way
C17_Witness ==
    /\ \E rd \in Live : rd.kind = "voice" /\ rd.toast.msg = MSG_STT_ERROR
    /\ \E rd \in Live : rd.toast.msg = MSG_UNDEFINED_REPLACE /\ rd.records > 0
    /\ UnderWay = {}

\* C18: the day counter restarts at a local-day boundary and only there: a
\* quota operation evaluated on a later local day than the page was opened
\* reports as used exactly the requests recorded on that day, whatever the
\* stored count was; on the day of the stored dayStart it reports the stored
\* count, and recordRequest() adds exactly one to it.
SameDay(a, b) == StartOfDay(a) = StartOfDay(b)

C18_DayRollover ==
    /\ []((probe.op \in { "getQuota", "canRequest" }
            /\ ~SameDay(Instants[probe.at], T0)) =>
              probe.rpdUsed =
                Cardinality({ i \in 1 .. probe.seen : SameDay(log[i], Instants[probe.at]) }))
    /\ [][(usage.kind = "json" /\ usage.dayStart = StartOfDay(Now)) =>
            /\ log' # log => /\ usage'.dayCount = usage.dayCount + 1
                              /\ usage'.dayStart = usage.dayStart
            /\ (probe' # probe /\ probe'.op \in { "getQuota", "canRequest" }) =>
                  probe'.rpdUsed = usage.dayCount]_vars

\* after midnight one request is counted although the store still holds
\* yesterday's count; a request was recorded in the last millisecond of
\* yesterday
C18_Witness ==
    /\ probe.op = "getQuota" /\ ~SameDay(Instants[probe.at], T0)
    /\ probe.rpdUsed = 1
    /\ \E i \in 1 .. probe.seen : log[i] = StartOfDay(Instants[probe.at]) - 1
    /\ \E i \in 1 .. probe.seen : log[i] = StartOfDay(Instants[probe.at])

\* C19: when canRequest() denies for the per-minute reason, the seconds it
\* reports are the ceiling of (oldest request in the window + 60 s - now),
\* at least 1 and at most 60; with an empty window the reported reset time
\* is 0.
OldestInWindow(k, t) ==
    LET S == { log[i] : i \in { j \in 1 .. k : log[j] > t - MINUTE_MS /\ log[j] <= t } }
    IN  CHOOSE m \in S : \A x \in S : m <= x

C19_ResetInSecPositive ==
    /\ (probe.op = "canRequest" /\ ~probe.allowed /\ probe.reason = "minute") =>
          LET left == OldestInWindow(probe.seen, Instants[probe.at])
                        + MINUTE_MS - Instants[probe.at]
          IN  /\ (probe.resetInSec - 1) * SECOND_MS < left
              /\ left <= probe.resetInSec * SECOND_MS
              /\ probe.resetInSec >= 1
              /\ probe.resetInSec <= 60
    /\ (probe.op \in { "getQuota", "canRequest" } /\ probe.rpmUsed = 0) =>
          probe.resetInSec = 0

\* the oldest request expires in one millisecond: 1 second is reported
C19_Witness ==
    /\ probe.op = "canRequest" /\ probe.reason = "minute"
    /\ probe.resetInSec = 1
    /\ OldestInWindow(probe.seen, Instants[probe.at]) + MINUTE_MS - Instants[probe.at] = 1

\* C20: at any time at most one round (voice or typed) is between its
\* admission check and its terminal event.
C20_OneRoundAtATime ==
    BagCardinality([rd \in UnderWay |-> CopiesIn(rd, rounds)]) <= 1

\* C21: recordRequest() is called once for every fetch that reached the
\* network: while a round's first backend call is under way, the requests it
\* has recorded equal the fetches that were answered, the 429 answers that
\* fetchWithRetry retried included.
C21_Answered(rd) == rd.attempt + (IF rd.pc = "backoff" THEN 1 ELSE 0)

C21_OneRecordPerFetch ==
    \A rd \in Live :
        (rd.calls = 1 /\ rd.pc \in { "fetch", "backoff" })
            => rd.records = C21_Answered(rd)

\* C22: on the non-clarified path a translate result of analyzeAndTranslate
\* that has an `original` field carries in it the exact source text that was
\* passed in, whatever the backend answered.
C22_OriginalIsSourceText ==
    (/\ probe.op = "analyze"
     /\ ~probe.result.threw
     /\ probe.result.value.type = "translate"
     /\ probe.result.value.original # "") =>
        probe.result.value.original = probe.text

\* C23: the promise of startListening() settles once.  It is rejected only
\* when speech recognition is unsupported or the session reports an error
\* other than no-speech and aborted; the end of the session (natural, or
\* after stopListening()) and the errors no-speech and aborted resolve it
\* with the concatenation of the final segments received so far; once it is
\* settled no later event changes its state or value; and a session that
\* was stopped or has failed does settle it.
QuietErrors == { "no-speech", "aborted" }
Settled(promise) == promise.state \in { "resolved", "rejected" }

C23_Outcome ==
    /\ stt.session = "none" =>
          \/ stt.promise = NoPromise
          \/ stt.promise = [state |-> "rejected", value |-> MSG_UNSUPPORTED]
    /\ stt.session = "ended" => Settled(stt.promise)
    /\ stt.error \in QuietErrors => stt.promise.state = "resolved"
    /\ stt.error \notin QuietErrors \cup { "" } =>
          stt.promise = [state |-> "rejected", value |-> SttErrorMessage(stt.error)]
    /\ stt.promise.state = "rejected" =>
          \/ stt.session = "none"
          \/ stt.error \notin QuietErrors \cup { "" }
    /\ stt.promise.state = "pending" => stt.session = "active" /\ stt.error = ""

C23_Step ==
    /\ Settled(stt.promise) => stt'.promise = stt.promise
    /\ (stt.promise.state = "pending" /\ stt'.promise.state = "resolved") =>
          /\ stt'.promise.value = Join(stt.segments)
          /\ stt'.session = "ended" \/ stt'.error \in QuietErrors

C23_SettlesOnce ==
    /\ []C23_Outcome
    /\ [][C23_Step]_vars
    /\ (stt.stopping \/ stt.error # "") ~> Settled(stt.promise)

\* two final segments, then no-speech resolved the promise with their
\* concatenation, and stopListening() and the end event came afterwards
C23_Witness ==
    /\ stt.session = "ended"
    /\ stt.stopping
    /\ stt.error = "no-speech"
    /\ stt.segments = << "a", "b" >>
    /\ stt.promise = [state |-> "resolved", value |-> "ab"]

\* C24: a missing or unparsable stored value is read as empty.  While the
\* quota key is absent or is not JSON, getQuota() and canRequest() report 0
\* requests used in the minute and in the day, and the first recordRequest()
\* stores exactly one timestamp (the current instant), today's start and a
\* day count of 1; while the history key is absent or is not JSON,
\* getHistory() returns the empty list.
Unreadable(raw) == raw.kind \in { "absent", "invalid" }

C24_QuotaReadAsEmpty ==
    (probe.op \in { "getQuota", "canRequest" } /\ Unreadable(usage)) =>
        /\ probe.rpmUsed = 0 /\ probe.rpmRemaining = MAX_RPM
        /\ probe.rpdUsed = 0 /\ probe.rpdRemaining = MAX_RPD

C24_HistoryReadAsEmpty ==
    (probe.op = "getHistory" /\ Unreadable(history)) => probe.entries = << >>

C24_FirstRecord ==
    (Unreadable(usage) /\ log' # log) =>
        usage' = [kind |-> "json", minuteTimestamps |-> << Now >>,
                  dayStart |-> StartOfDay(Now), dayCount |-> 1]

C24_MissingBlobIsEmpty ==
    /\ [](C24_QuotaReadAsEmpty /\ C24_HistoryReadAsEmpty)
    /\ [][C24_FirstRecord]_vars

\* the page was opened without a readable quota value, one request was
\* recorded, and getHistory() has read a history value that is not JSON
C24_Witness ==
    /\ log = << T0 >>
    /\ usage.kind = "json" /\ usage.dayCount = 1 /\ usage.minuteTimestamps = << T0 >>
    /\ history.kind = "invalid"
    /\ probe.op = "getHistory" /\ probe.entries = << >>

\* C25: getQuota() and canRequest() write the pruned state back: right after
\* such a call (no request recorded and no time passed since) the stored
\* quota value holds only timestamps newer than now - 60 s and its dayStart
\* is the start of the current local day.
C25_JustRead ==
    /\ probe.op \in { "getQuota", "canRequest" }
    /\ probe.at = now
    /\ probe.seen = Len(log)

C25_PrunedStatePersisted ==
    C25_JustRead =>
        /\ usage.kind = "json"
        /\ \A i \in DOMAIN usage.minuteTimestamps :
              usage.minuteTimestamps[i] > Now - MINUTE_MS
        /\ usage.dayStart = StartOfDay(Now)

\* C26: a round that waits for a clarification selection has no timeout and
\* is not cancelled: whatever happens (time passing, the chat being
\* cleared), it stays where it is, with nothing recorded and nothing shown,
\* until a step in which an option of its bubble is selected and
\* translateClarified is invoked with that option.  Without such a step it
\* waits for ever.
C26_StillWaiting(rd, nx) ==
    /\ nx = [rd EXCEPT !.options = nx.options]
    /\ nx.options \in { rd.options, << >> }
    /\ usage' = usage /\ log' = log

C26_Selected(rd, nx) ==
    /\ nx.calls = rd.calls + 1
    /\ nx.records = rd.records
    /\ nx.pc # "done" =>
          /\ nx.call = "clarified"
          /\ \E i \in DOMAIN rd.options : nx.selected = rd.options[i] /\ nx.text = rd.options[i]

C26_WaitsForSelection ==
    [][\A rd \in Live : rd.pc = "clarify" =>
          \E nx \in BagToSet(rounds') :
              C26_StillWaiting(rd, nx) \/ C26_Selected(rd, nx)]_vars

\* a round whose first call was recorded at the first instant is still
\* waiting, with its buttons, more than a minute later
C26_Witness ==
    /\ now = 3
    /\ log = << Instants[1] >>
    /\ \E rd \in Live : rd.pc = "clarify" /\ rd.options # << >> /\ rd.records = 1

\* C27: recordRequest() reads and writes the stored value in two steps.
\* With two tabs on the same store a state is reachable in which the stored
\* day counter is smaller than the number of recordRequest() calls completed
\* that day (the witness); it is never larger, and as long as only one tab
\* has called recordRequest() it is equal.
C27_PersistedToday ==
    IF usage.kind = "json" /\ usage.dayStart = StartOfDay(Now) THEN usage.dayCount ELSE 0

C27_CompletedToday == Cardinality({ i \in DOMAIN log : SameDay(log[i], Now) })

C27_SingleTabLosesNothing ==
    /\ C27_PersistedToday <= C27_CompletedToday
    /\ \A t \in Tabs :
          (\A o \in Tabs \ { t } : tabs[o] = IdleTab) =>
              C27_PersistedToday = C27_CompletedToday

\* both tabs have completed a call at the first instant and one of the two
\* updates is lost
C27_Witness ==
    /\ now = 1
    /\ \A t \in Tabs : tabs[t].pc = "idle" /\ tabs[t].done = 1
    /\ C27_PersistedToday = C27_CompletedToday - 1

\* C28: at most one voice round is in flight: while a beginRecording() that
\* passed its admission check has not run its finally block, isRecording is
\* true and no other beginRecording() has passed the check, for every
\* interleaving of press, release, back-button and role-selection events.
C28_VoiceUnderWay == { rd \in UnderWay : rd.kind = "voice" }

C28_OneVoiceRound ==
    /\ C28_VoiceUnderWay # {} => isRecording
    /\ BagCardinality([rd \in C28_VoiceUnderWay |-> CopiesIn(rd, rounds)]) <= 1

\* C29: every snapshot of getQuota() is consistent and in range: the
\* remaining count of each window is max(0, cap - used), hence between 0 and
\* the cap, used is not negative and resetInSec is not negative, also when
\* more requests than the cap have been recorded.
C29_Remaining(cap, used) == IF used >= cap THEN 0 ELSE cap - used

C29_SnapshotInRange ==
    probe.op \in { "getQuota", "canRequest" } =>
        /\ probe.rpmUsed >= 0 /\ probe.rpdUsed >= 0
        /\ probe.rpmRemaining = C29_Remaining(MAX_RPM, probe.rpmUsed)
        /\ probe.rpdRemaining = C29_Remaining(MAX_RPD, probe.rpdUsed)
        /\ probe.rpmRemaining \in 0 .. MAX_RPM
        /\ probe.rpdRemaining \in 0 .. MAX_RPD
        /\ probe.resetInSec >= 0

\* a snapshot taken when both windows hold more requests than their cap
C29_Witness ==
    /\ probe.op = "getQuota"
    /\ probe.rpmUsed > MAX_RPM /\ probe.rpmRemaining = 0
    /\ probe.rpdUsed > MAX_RPD /\ probe.rpdRemaining = 0
    /\ probe.resetInSec > 0

\* C30: a round that passed admission and obtained a non-empty text (so that
\* it invoked the backend client) and has ended, has ended with exactly one
\* terminal outcome: either a translation bubble and no error toast, or an
\* error toast and no translation bubble; and an ended round does nothing
\* more.  Rounds that have not ended are waiting for a backend response, a
\* retry timer or a clarification selection.
C30_Ended == { rd \in Live : rd.pc = "done" /\ rd.calls >= 1 }

C30_Bubble(rd) == rd.outcome = "delivered" /\ rd.delivered # ""
C30_Toast(rd) == rd.toast.msg # ""

C30_OneOutcome ==
    \A rd \in C30_Ended :
        /\ rd.outcome \in { "delivered", "error" }
        /\ C30_Bubble(rd) # C30_Toast(rd)
        /\ rd.outcome = "error" => C30_Toast(rd) /\ rd.delivered = ""

C30_Waiting ==
    \A rd \in Live :
        (rd.calls >= 1 /\ rd.pc # "done") => rd.pc \in { "fetch", "backoff", "clarify" }

C30_ExactlyOneTerminalOutcome ==
    /\ [](C30_OneOutcome /\ C30_Waiting)
    /\ [][\A rd \in C30_Ended : CopiesIn(rd, rounds') >= CopiesIn(rd, rounds)]_vars

\* one round delivered its translation after a clarification, another one
\* ended with the toast of a failed delivery after its request was recorded
C30_Witness ==
    /\ \E rd \in C30_Ended : C30_Bubble(rd) /\ rd.calls = 2
    /\ \E rd \in C30_Ended : rd.toast.msg = MSG_UNDEFINED_REPLACE /\ rd.records = 1
    /\ UnderWay = {}

\* C31: whenever some round is waiting for a backend response (a fetch of
\* its analyzeAndTranslate or translateClarified call is in flight, or the
\* call sleeps before a retry), a loading indicator is in the chat area.
C31_LoaderWhileWaiting == InFlight # {} => loading > 0

\* C32: after any sequence of saveEntry() and clearHistory() calls the stored
\* history holds at most 200 entries, newest first.  A saveEntry() call
\* stores the new entry at index 0 followed by the entries stored before, in
\* their order, without the oldest ones beyond 200; clearHistory() removes
\* the stored value.
C32_Stored(raw) == IF raw.kind = "json" THEN raw.entries ELSE << >>

C32_AtMost200NewestFirst ==
    LET entries == C32_Stored(history)
    IN  /\ Len(entries) <= 200
        /\ \A i, j \in DOMAIN entries : i < j => entries[i] > entries[j]

C32_Step ==
    LET old == C32_Stored(history)
        new == C32_Stored(history')
        kept == IF Len(old) < 199 THEN Len(old) ELSE 199
    IN  /\ saved' # saved =>
              /\ history'.kind = "json"
              /\ Len(new) = kept + 1
              /\ new[1] = saved'
              /\ \A i \in 1 .. kept : new[i + 1] = old[i]
        /\ (saved' = saved /\ history' # history) => history'.kind = "absent"

C32_HistoryBounded ==
    /\ []C32_AtMost200NewestFirst
    /\ [][C32_Step]_vars

\* two entries were saved on top of a full history: the two oldest entries
\* are gone
C32_Witness ==
    /\ history.kind = "json"
    /\ Len(history.entries) = 200
    /\ history.entries[1] = 2
    /\ history.entries[200] = 0 - 197

====
